---- MODULE Spec2Model ----
(***************************************************************************)
(* Bootstrap and routing layer of the sqlsync demo frontend                *)
(* (demo/frontend/src/main.tsx).                                           *)
(*                                                                         *)
(* Strings are modelled as sequences of one-character strings, so that     *)
(* prefix tests, trimming, percent-encoding and base58 text are computed   *)
(* character by character as the code computes them.                       *)
(***************************************************************************)
EXTENDS Integers, Sequences, FiniteSets, TLC

VARIABLES
    location,   \* window.location: [hostname, protocol]
    config,     \* module-level constants computed once at load (lines 19-24)
    navs,       \* one record per navigation handled by the router
    requests,   \* fetch() calls issued so far, with the response once it arrived
    console     \* console.error entries

vars == <<location, config, navs, requests, console>>

----------------------------------------------------------------------------
\* Bounds of the model

\* number of navigations (user navigations and followed redirects) explored
MaxNavs == 2

\* width in bytes of a journal id in the model (the worker uses 16-byte ids)
IdBytes == 2

----------------------------------------------------------------------------
\* Generic string helpers (String.prototype.startsWith / trim, concatenation)

StartsWith(s, p) ==
    /\ Len(s) >= Len(p)
    /\ \A i \in 1..Len(p) : s[i] = p[i]

Whitespace == {" ", "\t", "\n"}

RECURSIVE TrimStart(_)
TrimStart(s) ==
    IF s # <<>> /\ Head(s) \in Whitespace THEN TrimStart(Tail(s)) ELSE s

RECURSIVE TrimEnd(_)
TrimEnd(s) ==
    IF s # <<>> /\ s[Len(s)] \in Whitespace
    THEN TrimEnd(SubSeq(s, 1, Len(s) - 1))
    ELSE s

Trim(s) == TrimEnd(TrimStart(s))

\* position of the first occurrence of character c in s, 0 when there is none
RECURSIVE IndexFrom(_, _, _)
IndexFrom(s, c, i) ==
    IF i > Len(s) THEN 0
    ELSE IF s[i] = c THEN i
    ELSE IndexFrom(s, c, i + 1)

IndexOf(s, c) == IndexFrom(s, c, 1)

----------------------------------------------------------------------------
\* encodeURIComponent / decodeURIComponent over the ASCII characters used

HexDigits == <<"0","1","2","3","4","5","6","7","8","9","A","B","C","D","E","F">>

UriUnreserved ==
    {"A","B","C","D","E","F","G","H","I","J","K","L","M","N","O","P","Q","R",
     "S","T","U","V","W","X","Y","Z","a","b","c","d","e","f","g","h","i","j",
     "k","l","m","n","o","p","q","r","s","t","u","v","w","x","y","z","0","1",
     "2","3","4","5","6","7","8","9","-","_",".","!","~","*","'","(",")"}

\* the escaped characters of the model with their character codes
EscapedChars == {"\t", "\n", " ", "%", "&", "/", ":", "?"}

CharCode(c) ==
    CASE c = "\t" -> 9
      [] c = "\n" -> 10
      [] c = " "  -> 32
      [] c = "%"  -> 37
      [] c = "&"  -> 38
      [] c = "/"  -> 47
      [] c = ":"  -> 58
      [] c = "?"  -> 63

EncodeChar(c) ==
    IF c \in UriUnreserved
    THEN <<c>>
    ELSE <<"%", HexDigits[(CharCode(c) \div 16) + 1], HexDigits[(CharCode(c) % 16) + 1]>>

RECURSIVE encodeURIComponent(_)
encodeURIComponent(s) ==
    IF s = <<>> THEN <<>>
    ELSE EncodeChar(Head(s)) \o encodeURIComponent(Tail(s))

\* the value of each hexadecimal digit, and the escaped character of each code
HexValue == [c \in { HexDigits[i] : i \in 1..Len(HexDigits) } |->
                (CHOOSE i \in 1..Len(HexDigits) : HexDigits[i] = c) - 1]

CharOfCode == [code \in { CharCode(c) : c \in EscapedChars } |->
                  CHOOSE c \in EscapedChars : CharCode(c) = code]

\* the marker a malformed escape sequence decodes to (decodeURIComponent throws)
URIError == "URIError"

RECURSIVE decodeURIComponent(_)
decodeURIComponent(s) ==
    IF s = <<>> THEN <<>>
    ELSE IF Head(s) # "%" THEN <<Head(s)>> \o decodeURIComponent(Tail(s))
    ELSE IF /\ Len(s) >= 3
            /\ s[2] \in DOMAIN HexValue
            /\ s[3] \in DOMAIN HexValue
            /\ 16 * HexValue[s[2]] + HexValue[s[3]] \in DOMAIN CharOfCode
         THEN <<CharOfCode[16 * HexValue[s[2]] + HexValue[s[3]]]>>
              \o decodeURIComponent(SubSeq(s, 4, Len(s)))
         ELSE <<URIError>>

----------------------------------------------------------------------------
\* Identifier codec of @orbitinghail/sqlsync-worker (imported at line 11):
\* a journal id is a byte sequence, its canonical string is its base58 text.

Base58Alphabet ==
    <<"1","2","3","4","5","6","7","8","9","A","B","C","D","E","F","G","H","J",
      "K","L","M","N","P","Q","R","S","T","U","V","W","X","Y","Z","a","b","c",
      "d","e","f","g","h","i","j","k","m","n","o","p","q","r","s","t","u","v",
      "w","x","y","z">>

Base58Radix == Len(Base58Alphabet)

\* the digit value of each character of the alphabet
Base58Value ==
    [c \in { Base58Alphabet[i] : i \in 1..Base58Radix } |->
        (CHOOSE i \in 1..Base58Radix : Base58Alphabet[i] = c) - 1]

ByteRadix == 256

RECURSIVE LeadingCount(_, _)
LeadingCount(s, x) ==
    IF s # <<>> /\ Head(s) = x THEN 1 + LeadingCount(Tail(s), x) ELSE 0

\* value of a big-endian digit sequence in the given radix
RECURSIVE DigitsValue(_, _)
DigitsValue(ds, radix) ==
    IF ds = <<>> THEN 0
    ELSE DigitsValue(SubSeq(ds, 1, Len(ds) - 1), radix) * radix + ds[Len(ds)]

\* big-endian digits of n in the given radix, empty for 0
RECURSIVE ValueDigits(_, _)
ValueDigits(n, radix) ==
    IF n = 0 THEN <<>>
    ELSE Append(ValueDigits(n \div radix, radix), n % radix)

journalIdToString(id) ==
    LET zeros  == LeadingCount(id, 0)
        digits == ValueDigits(DigitsValue(id, ByteRadix), Base58Radix)
    IN  [i \in 1..zeros |-> Base58Alphabet[1]]
        \o [i \in 1..Len(digits) |-> Base58Alphabet[digits[i] + 1]]

\* [ok |-> FALSE] models the exception thrown for text that is no journal id
journalIdFromString(s) ==
    IF \E i \in 1..Len(s) : s[i] \notin DOMAIN Base58Value
    THEN [ok |-> FALSE, id |-> <<>>]
    ELSE LET ones  == LeadingCount(s, Base58Alphabet[1])
             ds    == [i \in 1..Len(s) |-> Base58Value[s[i]]]
             bytes == [i \in 1..ones |-> 0] \o ValueDigits(DigitsValue(ds, Base58Radix), ByteRadix)
         IN  IF Len(bytes) = IdBytes
             THEN [ok |-> TRUE, id |-> bytes]
             ELSE [ok |-> FALSE, id |-> <<>>]

----------------------------------------------------------------------------
\* Coordinator endpoint (lines 19-24)

Localhost == <<"l","o","c","a","l","h","o","s","t">>

PrivatePrefix == <<"1","9","2",".","1","6","8">>

LocalPort == <<":","8","7","8","7">>

ProductionHost ==
    <<"s","q","l","s","y","n","c",".","o","r","b","i","t","i","n","g","h","a",
      "i","l",".","w","o","r","k","e","r","s",".","d","e","v">>

isLocalhost(hostname) ==
    hostname = Localhost \/ StartsWith(hostname, PrivatePrefix)

COORDINATOR_URL(hostname) ==
    IF isLocalhost(hostname) THEN hostname \o LocalPort ELSE ProductionHost

COORDINATOR_URL_WS(hostname) ==
    (IF isLocalhost(hostname) THEN <<"w","s">> ELSE <<"w","s","s">>)
    \o <<":","/","/">> \o COORDINATOR_URL(hostname)

\* the three module constants as evaluated once when the module is loaded
LoadConfig(loc) ==
    [isLocalhost        |-> isLocalhost(loc.hostname),
     COORDINATOR_URL    |-> COORDINATOR_URL(loc.hostname),
     COORDINATOR_URL_WS |-> COORDINATOR_URL_WS(loc.hostname)]

----------------------------------------------------------------------------
\* newDocumentId (lines 26-35)

NewPath == <<"/","n","e","w">>

\* a variant of newDocumentIdUrl that encodes the trimmed name
newDocumentIdUrlTrimmed(protocol, coordinatorUrl, name) ==
    LET url == protocol \o <<"/","/">> \o coordinatorUrl \o NewPath
    IN  IF Len(Trim(name)) > 0
        THEN url \o <<"/">> \o encodeURIComponent(Trim(name))
        ELSE url

\* lines 27-30: the request URL for a name ("" when the argument is absent)
newDocumentIdUrl(protocol, coordinatorUrl, name) ==
    LET url == protocol \o <<"/","/">> \o coordinatorUrl \o NewPath
    IN  IF Len(Trim(name)) > 0
        THEN url \o <<"/">> \o encodeURIComponent(name)
        ELSE url

NoResponse == [kind |-> "pending", status |-> 0, body |-> <<>>]

\* a variant of newDocumentIdFetch that tries the request a second time
newDocumentIdFetchRetry(n, url) ==
    <<[nav |-> n, method |-> "POST", url |-> url, response |-> NoResponse],
      [nav |-> n, method |-> "POST", url |-> url, response |-> NoResponse]>>

\* a variant of newDocumentIdFetch that reuses a pending request to the same URL
newDocumentIdFetchShared(n, url) ==
    IF \E r \in 1..Len(requests) : requests[r].url = url /\ requests[r].response = NoResponse
    THEN <<>>
    ELSE <<[nav |-> n, method |-> "POST", url |-> url, response |-> NoResponse]>>

\* lines 31-33: the fetch calls one invocation of newDocumentId makes for nav n
newDocumentIdFetch(n, url) ==
    <<[nav |-> n, method |-> "POST", url |-> url, response |-> NoResponse]>>

\* lines 31-34 once the fetch promise settled: fetch rejects on a network
\* error only; any HTTP response resolves and its text is handed to the codec
newDocumentIdResult(response) ==
    IF response.kind = "networkError"
    THEN [ok |-> FALSE, id |-> <<>>]
    ELSE journalIdFromString(response.body)

\* decimal text of a byte
ByteText(b) ==
    IF b = 0 THEN <<"0">>
    ELSE LET ds == ValueDigits(b, 10) IN [i \in 1..Len(ds) |-> HexDigits[ds[i] + 1]]

\* the text a byte array turns into inside a template literal: "0,2"
RECURSIVE BytesText(_)
BytesText(id) ==
    IF id = <<>> THEN <<>>
    ELSE IF Len(id) = 1 THEN ByteText(id[1])
    ELSE ByteText(Head(id)) \o <<",">> \o BytesText(Tail(id))

\* a variant of LoaderRedirect that interpolates the id without journalIdToString
LoaderRedirectUnformatted(id) == << <<"/">> \o BytesText(id) >>

\* lines 53 and 60: the redirects a loader returns for the id it obtained
LoaderRedirect(id) == << <<"/">> \o journalIdToString(id) >>

----------------------------------------------------------------------------
\* Route table (lines 48-67)

RootRoute == "/"
NamedRoute == "/named/:name"
DocIdRoute == "/:docId"
NoRoute == "none"

NamedSegment == <<"n","a","m","e","d">>

\* the route a path matches and its decoded parameters
MatchRoute(path) ==
    LET none == [route |-> NoRoute, hasName |-> FALSE, name |-> <<>>,
                 hasDocId |-> FALSE, docId |-> <<>>]
        rest == IF path = <<>> THEN <<>> ELSE Tail(path)
        cut  == IndexOf(rest, "/")
        tl   == SubSeq(rest, cut + 1, Len(rest))
    IN  IF path = <<>> \/ Head(path) # "/" THEN none
        ELSE IF rest = <<>> THEN [none EXCEPT !.route = RootRoute]
        ELSE IF cut = 0
             THEN [none EXCEPT !.route = DocIdRoute, !.hasDocId = TRUE,
                               !.docId = decodeURIComponent(rest)]
        ELSE IF /\ SubSeq(rest, 1, cut - 1) = NamedSegment
                /\ tl # <<>>
                /\ IndexOf(tl, "/") = 0
             THEN [none EXCEPT !.route = NamedRoute, !.hasName = TRUE,
                               !.name = decodeURIComponent(tl)]
        ELSE none

IsCreationRoute(route) == route \in {RootRoute, NamedRoute}

\* the argument the loader of a route passes to newDocumentId; the default
\* parameter value "" stands in for an absent argument (line 26)
LoaderName(nav) == IF nav.hasName THEN nav.name ELSE <<>>

NewNav(path, m, origin) ==
    [path |-> path, route |-> m.route,
     hasName |-> m.hasName, name |-> m.name,
     hasDocId |-> m.hasDocId, docId |-> m.docId,
     state |-> "Idle", origin |-> origin,
     req |-> 0, id |-> <<>>, redirects |-> <<>>, followed |-> FALSE,
     settledStale |-> FALSE,
     view |-> "none", viewDocId |-> <<>>, parseCalls |-> 0]

----------------------------------------------------------------------------
\* DocRoute (lines 37-46)

LogMessage == <<"d","o","c"," ","i","d"," ","n","o","t"," ","f","o","u","n","d">>

\* !docId of line 40: undefined and "" are both falsy
DocIdMissing(nav) == ~nav.hasDocId \/ nav.docId = <<>>

\* a variant of DocRouteLog that writes nothing
DocRouteLogSilent(n) == <<>>

\* the console.error entries one render without a docId writes (line 41)
DocRouteLog(n) == <<[nav |-> n, message |-> LogMessage]>>

\* a variant of DocRoute with the test of line 40 inverted
DocRouteInverted(nav) ==
    IF ~DocIdMissing(nav)
    THEN [nav EXCEPT !.state = "Rendering", !.view = "error"]
    ELSE LET parsed == journalIdFromString(nav.docId)
         IN  IF parsed.ok
             THEN [nav EXCEPT !.state = "Rendering", !.view = "App",
                              !.viewDocId = parsed.id,
                              !.parseCalls = nav.parseCalls + 1]
             ELSE [nav EXCEPT !.state = "Failed",
                              !.parseCalls = nav.parseCalls + 1]

\* the outcome of rendering DocRoute for a navigation
DocRoute(nav) ==
    IF DocIdMissing(nav)
    THEN [nav EXCEPT !.state = "Rendering", !.view = "error"]
    ELSE LET parsed == journalIdFromString(nav.docId)
         IN  IF parsed.ok
             THEN [nav EXCEPT !.state = "Rendering", !.view = "App",
                              !.viewDocId = parsed.id,
                              !.parseCalls = nav.parseCalls + 1]
             ELSE [nav EXCEPT !.state = "Failed",
                              !.parseCalls = nav.parseCalls + 1]

----------------------------------------------------------------------------
\* Inputs explored

Hostnames ==
    { Localhost,
      <<"1","9","2",".","1","6","8",".","1",".","5">>,
      <<"1","9","2",".","1","6","8","0",".","i","o">>,
      <<"1","9","2",".","1","6",".","8",".","1">>,
      <<"l","o","c","a","l","h","o","s","t",".","i","o">>,
      <<"a","p","p",".","e","x","a","m","p","l","e",".","c","o","m">> }

Protocols == { <<"h","t","t","p",":">>, <<"h","t","t","p","s",":">> }

Locations == [hostname : Hostnames, protocol : Protocols]

\* the two deployments the navigation flows are explored under: the
\* development setup on localhost and a hosted page served over https
DeployedLocations ==
    { [hostname |-> Localhost, protocol |-> <<"h","t","t","p",":">>],
      [hostname |-> <<"a","p","p",".","e","x","a","m","p","l","e",".","c","o","m">>,
       protocol |-> <<"h","t","t","p","s",":">>] }

\* ids the coordinator hands out: one with a leading zero byte, one without
ZeroLedId == [i \in 1..IdBytes |-> IF i = 1 THEN 0 ELSE i]

IssuedIds == { ZeroLedId, [i \in 1..IdBytes |-> 256 - i] }

\* a body of characters outside the codec's alphabet
ForeignBody == <<"0","O">>

\* what the network or the coordinator may answer: no response at all, a
\* success with an id or with foreign text, an error status with an empty
\* body or with a body that happens to be id text
Responses ==
    { [kind |-> "networkError", status |-> 0, body |-> <<>>] }
    \cup [kind : {"response"}, status : {200},
          body : { journalIdToString(id) : id \in IssuedIds } \cup { ForeignBody }]
    \cup [kind : {"response"}, status : {500},
          body : { <<>>, journalIdToString(ZeroLedId) }]

CreationPaths ==
    { <<"/">>,
      <<"/","n","a","m","e","d","/","T","r","i","p","%","2","0","P","l","a","n","n","e","r","%","2","0">>,
      <<"/","n","a","m","e","d","/","%","2","0">> }

DocPaths == { <<"/">> \o journalIdToString(ZeroLedId), <<"/">> \o ForeignBody }

NavPaths == CreationPaths \cup DocPaths

----------------------------------------------------------------------------
\* State machine

InitAt(locations) ==
    /\ location \in locations
    /\ config = LoadConfig(location)
    /\ navs = <<>>
    /\ requests = <<>>
    /\ console = <<>>

\* the user opens a path; the router matches it against the route table
Navigate(path) ==
    /\ Len(navs) < MaxNavs
    /\ MatchRoute(path).route # NoRoute
    /\ navs' = Append(navs, NewNav(path, MatchRoute(path), 0))
    /\ UNCHANGED <<location, config, requests, console>>

\* DocRoute is mounted with no usable docId parameter: undefined (present
\* FALSE) or the empty string (present TRUE)
NavigateNoDocId(present) ==
    /\ Len(navs) < MaxNavs
    /\ navs' = Append(navs, NewNav(<<>>, [MatchRoute(<<>>) EXCEPT !.route = DocIdRoute,
                                                             !.hasDocId = present], 0))
    /\ UNCHANGED <<location, config, requests, console>>

\* lines 51-52 / 58-59 up to the await of fetch
LoaderStart(n) ==
    /\ navs[n].state = "Idle"
    /\ IsCreationRoute(navs[n].route)
    /\ LET url == newDocumentIdUrl(location.protocol, config.COORDINATOR_URL,
                                   LoaderName(navs[n]))
       IN  /\ requests' = requests \o newDocumentIdFetch(n, url)
           /\ navs' = [navs EXCEPT ![n].state = "Resolving",
                                   ![n].req = Len(requests) + 1]
    /\ UNCHANGED <<location, config, console>>

\* the network or the coordinator settles a pending request
CoordinatorRespond(r, response) ==
    /\ requests[r].response = NoResponse
    /\ requests' = [requests EXCEPT ![r].response = response]
    /\ UNCHANGED <<location, config, navs, console>>

\* a variant of LoaderSettle that starts the loader over when newDocumentId fails
LoaderSettleRetry(nav, result, stale) ==
    IF result.ok
    THEN [nav EXCEPT !.state = "Redirecting", !.id = result.id,
                     !.redirects = nav.redirects \o LoaderRedirect(result.id),
                     !.settledStale = stale]
    ELSE [nav EXCEPT !.state = "Idle"]

\* what the loader does with the result of newDocumentId; stale tells whether
\* a later navigation had already started when the redirect is returned
LoaderSettle(nav, result, stale) ==
    IF result.ok
    THEN [nav EXCEPT !.state = "Redirecting", !.id = result.id,
                     !.redirects = nav.redirects \o LoaderRedirect(result.id),
                     !.settledStale = stale]
    ELSE [nav EXCEPT !.state = "Failed"]

\* the loader resumes after its awaits (lines 34, 53 / 60)
LoaderResume(n) ==
    /\ navs[n].state = "Resolving"
    /\ requests[navs[n].req].response # NoResponse
    /\ navs' = [navs EXCEPT ![n] =
                    LoaderSettle(@, newDocumentIdResult(requests[navs[n].req].response),
                                 Len(navs) > n)]
    /\ UNCHANGED <<location, config, requests, console>>

\* the router follows a redirect a loader returned: a new navigation. The
\* router's rules for interrupted navigations are not part of this file, so
\* every returned redirect may be followed, once
FollowRedirect(n) ==
    /\ navs[n].state = "Redirecting"
    /\ ~navs[n].followed
    /\ Len(navs) < MaxNavs
    /\ MatchRoute(navs[n].redirects[1]).route # NoRoute
    /\ navs' = Append([navs EXCEPT ![n].followed = TRUE],
                      NewNav(navs[n].redirects[1], MatchRoute(navs[n].redirects[1]), n))
    /\ UNCHANGED <<location, config, requests, console>>

\* the router picks the element of route /:docId (lines 63-66)
DocRouteMatch(n) ==
    /\ navs[n].state = "Idle"
    /\ navs[n].route = DocIdRoute
    /\ navs' = [navs EXCEPT ![n].state = "Parsing"]
    /\ UNCHANGED <<location, config, requests, console>>

\* React renders DocRoute (lines 37-46)
DocRouteRender(n) ==
    /\ navs[n].state = "Parsing"
    /\ navs' = [navs EXCEPT ![n] = DocRoute(@)]
    /\ console' = IF DocIdMissing(navs[n]) THEN console \o DocRouteLog(n) ELSE console
    /\ UNCHANGED <<location, config, requests>>

Next ==
    \/ \E path \in NavPaths : Navigate(path)
    \/ \E present \in BOOLEAN : NavigateNoDocId(present)
    \/ \E n \in 1..Len(navs) : LoaderStart(n)
    \/ \E r \in 1..Len(requests) : \E response \in Responses : CoordinatorRespond(r, response)
    \/ \E n \in 1..Len(navs) : LoaderResume(n)
    \/ \E n \in 1..Len(navs) : FollowRedirect(n)
    \/ \E n \in 1..Len(navs) : DocRouteMatch(n)
    \/ \E n \in 1..Len(navs) : DocRouteRender(n)

Init == InitAt(DeployedLocations)

Spec == Init /\ [][Next]_vars

\* the same program under every hostname and page protocol explored
InitLocations == InitAt(Locations)

SpecLocations == InitLocations /\ [][Next]_vars

----------------------------------------------------------------------------
\* Vocabulary of the properties

NavIds == 1..Len(navs)

RequestIds == 1..Len(requests)

RequestsOf(n) == { r \in RequestIds : requests[r].nav = n }

CreationNavs == { n \in NavIds : IsCreationRoute(navs[n].route) }

DocNavs == { n \in NavIds : navs[n].route = DocIdRoute }

Settled(n) == navs[n].state \in {"Redirecting", "Rendering", "Failed"}

\* the response the request of a navigation received
ResponseOf(n) == requests[navs[n].req].response

\* scheme, host and path of an absolute URL
UrlScheme(url) == SubSeq(url, 1, IndexOf(url, ":") - 1)

UrlAuthorityAndPath(url) == SubSeq(url, IndexOf(url, ":") + 3, Len(url))

UrlHost(url) ==
    LET rest == UrlAuthorityAndPath(url)
        cut  == IndexOf(rest, "/")
    IN  IF cut = 0 THEN rest ELSE SubSeq(rest, 1, cut - 1)

UrlPath(url) ==
    LET rest == UrlAuthorityAndPath(url)
        cut  == IndexOf(rest, "/")
    IN  IF cut = 0 THEN <<>> ELSE SubSeq(rest, cut, Len(rest))

HTTP == <<"h","t","t","p">>
HTTPS == <<"h","t","t","p","s">>
WS == <<"w","s">>
WSS == <<"w","s","s">>

IsSuccessStatus(status) == status \in 200..299

----------------------------------------------------------------------------
\* C1: every navigation to / or /named/:name issues exactly one coordinator
\* request, a POST, whether it succeeds or fails; when the request yields an
\* id it issues exactly one redirect, to "/" followed by the canonical string
\* of that id; and no redirect exists before the response was received.
C1_OneRequestOneRedirect ==
    \A n \in CreationNavs :
        /\ navs[n].state = "Idle" => RequestsOf(n) = {} /\ navs[n].redirects = <<>>
        /\ navs[n].state # "Idle" =>
               /\ Cardinality(RequestsOf(n)) = 1
               /\ \A r \in RequestsOf(n) : requests[r].method = "POST"
        /\ navs[n].redirects # <<>> =>
               /\ Len(navs[n].redirects) = 1
               /\ navs[n].req \in RequestIds
               /\ ResponseOf(n).kind = "response"
               /\ LET text == journalIdToString(navs[n].id)
                  IN  /\ navs[n].redirects[1] = <<"/">> \o text
                      /\ text = ResponseOf(n).body
        /\ (Settled(n) /\ navs[n].req \in RequestIds
              /\ ResponseOf(n).kind = "response"
              /\ journalIdFromString(ResponseOf(n).body).ok)
               => Len(navs[n].redirects) = 1

C1_Witness ==
    \E n \in CreationNavs :
        /\ navs[n].route = NamedRoute
        /\ navs[n].state = "Redirecting"
        /\ Len(navs[n].redirects) = 1
        /\ Cardinality(RequestsOf(n)) = 1

----------------------------------------------------------------------------
RequestOrigin == location.protocol \o <<"/","/">> \o config.COORDINATOR_URL

\* C2: the request path is /new with no name segment exactly when the trimmed
\* name is empty (an absent name included); otherwise it is /new/ followed by
\* the untrimmed name percent-encoded once: the segment holds only unreserved
\* characters and escapes, and decoding it once gives the name back.
C2_NameSegment ==
    \A r \in RequestIds :
        LET name  == LoaderName(navs[requests[r].nav])
            blank == Trim(name) = <<>>
            url   == requests[r].url
            path  == SubSeq(url, Len(RequestOrigin) + 1, Len(url))
            seg   == SubSeq(path, Len(NewPath) + 2, Len(path))
        IN  /\ SubSeq(url, 1, Len(RequestOrigin)) = RequestOrigin
            /\ blank <=> (path = NewPath)
            /\ ~blank =>
                   /\ SubSeq(path, 1, Len(NewPath) + 1) = NewPath \o <<"/">>
                   /\ \A i \in 1..Len(seg) : seg[i] \in UriUnreserved \cup {"%"}
                   /\ decodeURIComponent(seg) = name

C2_Witness ==
    /\ \E r \in RequestIds :
           LET name == LoaderName(navs[requests[r].nav])
           IN  name # <<>> /\ Trim(name) = <<>>
    /\ \E r \in RequestIds :
           LET name == LoaderName(navs[requests[r].nav])
           IN  Trim(name) # <<>> /\ Trim(name) # name

----------------------------------------------------------------------------
\* C3: a coordinator request that failed (network error, non-success status
\* or a body the codec cannot parse) leaves its navigation failed, with no
\* redirect issued.
C3_FailureMeansNoRedirect ==
    \A n \in CreationNavs :
        (/\ Settled(n)
         /\ \/ ResponseOf(n).kind = "networkError"
            \/ ~IsSuccessStatus(ResponseOf(n).status)
            \/ ~journalIdFromString(ResponseOf(n).body).ok)
        => navs[n].state = "Failed" /\ navs[n].redirects = <<>>

----------------------------------------------------------------------------
\* C4: a navigation to /:docId whose docId is a valid canonical identifier
\* never fails and never issues a request, and once rendered shows the editor
\* with the identifier the codec parses from docId.
C4_ValidDocIdRenders ==
    \A n \in DocNavs :
        (~DocIdMissing(navs[n]) /\ journalIdFromString(navs[n].docId).ok) =>
            /\ RequestsOf(n) = {}
            /\ navs[n].state \in {"Idle", "Parsing", "Rendering"}
            /\ navs[n].state = "Rendering" =>
                   /\ navs[n].view = "App"
                   /\ navs[n].viewDocId = journalIdFromString(navs[n].docId).id
                   /\ journalIdToString(navs[n].viewDocId) = navs[n].docId

C4_Witness ==
    \E n \in DocNavs :
        /\ navs[n].origin = 0
        /\ navs[n].docId = journalIdToString(ZeroLedId)
        /\ navs[n].state = "Rendering"
        /\ navs[n].view = "App"

----------------------------------------------------------------------------
\* C5: DocRoute rendered with an absent or empty docId shows the error
\* message and writes one log entry; it does not throw, does not call the
\* codec, does not mount the editor and issues no request.
C5_MissingDocId ==
    \A n \in DocNavs :
        DocIdMissing(navs[n]) =>
            /\ RequestsOf(n) = {}
            /\ navs[n].parseCalls = 0
            /\ navs[n].state # "Failed"
            /\ navs[n].view # "App"
            /\ ~Settled(n) =>
                   Cardinality({ i \in 1..Len(console) : console[i].nav = n }) = 0
            /\ Settled(n) =>
                   /\ navs[n].view = "error"
                   /\ Cardinality({ i \in 1..Len(console) : console[i].nav = n }) = 1

C5_Witness ==
    /\ \E n \in DocNavs : ~navs[n].hasDocId /\ navs[n].view = "error"
    /\ \E n \in DocNavs : navs[n].hasDocId /\ navs[n].docId = <<>> /\ navs[n].view = "error"

----------------------------------------------------------------------------
PrivateAddressPrefix == PrivatePrefix \o <<".">>

\* C6: the client is local exactly when the hostname is localhost or an
\* address of the form 192.168.*; a local client gets ws://<hostname>:8787,
\* any other client wss://<production host>.
C6_LocalIffPrivateAddress ==
    /\ config.isLocalhost <=>
           \/ location.hostname = Localhost
           \/ StartsWith(location.hostname, PrivateAddressPrefix)
    /\ config.isLocalhost =>
           /\ UrlScheme(config.COORDINATOR_URL_WS) = WS
           /\ UrlHost(config.COORDINATOR_URL_WS) = location.hostname \o LocalPort
    /\ ~config.isLocalhost =>
           /\ UrlScheme(config.COORDINATOR_URL_WS) = WSS
           /\ UrlHost(config.COORDINATOR_URL_WS) = ProductionHost

----------------------------------------------------------------------------
\* C7: the scheme of every creation request follows the local classification
\* alone, http for a local client and https otherwise, in step with the
\* WebSocket scheme (ws with http, wss with https).
C7_HttpSchemeFollowsClassification ==
    \A r \in RequestIds :
        /\ UrlScheme(requests[r].url) = (IF config.isLocalhost THEN HTTP ELSE HTTPS)
        /\ (UrlScheme(requests[r].url) = HTTP) <=> (UrlScheme(config.COORDINATOR_URL_WS) = WS)

----------------------------------------------------------------------------
CodecRoundTrip ==
    \A id \in IssuedIds :
        journalIdFromString(journalIdToString(id)) = [ok |-> TRUE, id |-> id]

\* C8: the canonical string of every issued id parses back to that id, and a
\* navigation that follows a loader's redirect is never failed and, once
\* rendered, shows the editor with the id whose canonical string the
\* coordinator returned to that loader.
C8_RoundTrip ==
    /\ CodecRoundTrip
    /\ \A m \in NavIds :
           navs[m].origin # 0 =>
               /\ navs[m].route = DocIdRoute
               /\ navs[m].state # "Failed"
               /\ navs[m].state = "Rendering" =>
                      /\ navs[m].view = "App"
                      /\ navs[m].viewDocId \in IssuedIds
                      /\ navs[m].viewDocId = navs[navs[m].origin].id
                      /\ journalIdToString(navs[m].viewDocId) = ResponseOf(navs[m].origin).body

C8_Witness ==
    \E m \in NavIds :
        /\ navs[m].origin # 0
        /\ navs[m].state = "Rendering"
        /\ navs[m].view = "App"
        /\ navs[m].viewDocId = ZeroLedId
        /\ IsSuccessStatus(ResponseOf(navs[m].origin).status)

----------------------------------------------------------------------------
\* C9: every started creation navigation has a request of its own, also when
\* another navigation asks for the same URL (no deduplication), and a request
\* once issued stays: requests pair off one-to-one with the started creation
\* navigations. The stale redirect is the state C9_Witness describes.
C9_OwnRequestEach ==
    /\ \A n \in CreationNavs :
           navs[n].state # "Idle" =>
               navs[n].req \in RequestIds /\ requests[navs[n].req].nav = n
    /\ \A n, m \in CreationNavs :
           (n # m /\ navs[n].state # "Idle" /\ navs[m].state # "Idle") =>
               navs[n].req # navs[m].req
    /\ Len(requests) = Cardinality({ n \in CreationNavs : navs[n].state # "Idle" })

\* two creation navigations to different routes each sent a request, and the
\* first one's redirect was issued after the user had started the second
C9_Witness ==
    \E n, m \in CreationNavs :
        /\ n < m
        /\ navs[m].origin = 0
        /\ navs[m].route # navs[n].route
        /\ navs[n].state = "Redirecting"
        /\ navs[n].settledStale
        /\ navs[m].state = "Resolving"
        /\ navs[n].req # navs[m].req

----------------------------------------------------------------------------
SameNav(n) == navs'[n].route = navs[n].route

CreationStep(n) ==
    /\ IsCreationRoute(navs[n].route)
    /\ <<navs[n].state, navs'[n].state>> \in
           { <<"Idle", "Resolving">>, <<"Resolving", "Redirecting">>,
             <<"Resolving", "Failed">> }

DocStep(n) ==
    /\ navs[n].route = DocIdRoute
    /\ <<navs[n].state, navs'[n].state>> \in
           { <<"Idle", "Parsing">>, <<"Parsing", "Rendering">> }

\* C10 as stated: the only transitions are Idle -> Resolving -> Redirecting
\* or Failed on the creation routes and Idle -> Parsing -> Rendering on
\* /:docId.
C10_StatedTransitions ==
    [][ /\ Len(navs') >= Len(navs)
        /\ \A n \in NavIds :
               /\ SameNav(n)
               /\ \/ navs'[n].state = navs[n].state
                  \/ CreationStep(n)
                  \/ DocStep(n) ]_vars

DocParseFailure(n) ==
    /\ navs[n].route = DocIdRoute
    /\ ~DocIdMissing(navs[n])
    /\ ~journalIdFromString(navs[n].docId).ok
    /\ <<navs[n].state, navs'[n].state>> = <<"Parsing", "Failed">>

\* C10 amended: as stated, with one more failure transition, Parsing ->
\* Failed, taken when the codec cannot parse docId; Failed, Redirecting and
\* Rendering are never left.
C10_Transitions ==
    [][ /\ Len(navs') >= Len(navs)
        /\ \A n \in NavIds :
               /\ SameNav(n)
               /\ \/ navs'[n].state = navs[n].state
                  \/ CreationStep(n)
                  \/ DocStep(n)
                  \/ DocParseFailure(n)
               /\ navs[n].state \in {"Failed", "Redirecting", "Rendering"}
                      => navs'[n].state = navs[n].state ]_vars

C10_Witness ==
    /\ \E n \in CreationNavs : navs[n].state = "Failed"
    /\ \E n \in DocNavs : navs[n].state = "Failed"

====
